---- MODULE Spec2Model ----
(***************************************************************************)
(* Model of src/modules/streaming_pipeline/update_indexing_config.py:      *)
(* optimize_qdrant_collection(collection_name) and main().                 *)
(*                                                                         *)
(* The function is split at its two blocking remote calls, so that the     *)
(* remote service (its stored configuration and its vector counters) can   *)
(* change between them.  The remote service and the process environment    *)
(* are the surroundings of the script; everything else is the script.      *)
(***************************************************************************)
EXTENDS Integers, Sequences, FiniteSets, TLC

(***************************************************************************)
(* Bounds of the model.                                                    *)
(***************************************************************************)
\* invocations of the script (or of the function) in one behaviour
MaxRuns == 2
\* vectors an external writer may add to one collection
MaxVectors == 2

(***************************************************************************)
(* State.                                                                  *)
(***************************************************************************)
VARIABLES
    env,              \* [url, api_key]: the process environment
    remote,           \* collection name -> [config, indexed, total]
    pc,               \* position of the script
    entry,            \* "main": run as a script; "direct": the function called
    collection_name,  \* the argument of optimize_qdrant_collection
    client,           \* the client handle: None or Some([url, api_key])
    collection_info,  \* None or Some(what get_collection returned)
    exc,              \* the exception in flight, NoExc when there is none
    calls,            \* remote calls issued by this invocation, in order
    log,              \* log lines emitted by this invocation, in order
    outcome,          \* of optimize_qdrant_collection: "none", "returned", "raised"
    retval,           \* the value it returned
    mainExit,         \* of main(): "none", "normal", "exception"
    runs,             \* invocations so far
    steps,            \* steps of the script taken by this invocation
    applied,          \* history: every update the service applied, in order
    atUpdate,         \* history: the counters when the update returned
    atRead            \* history: the counters when the status read was served

vars == <<env, remote, pc, entry, collection_name, client, collection_info, exc,
          calls, log, outcome, retval, mainExit, runs, steps, applied,
          atUpdate, atRead>>

scriptVars == <<pc, client, collection_info, exc, calls, log, outcome, retval,
                mainExit, steps>>

(***************************************************************************)
(* Inputs.                                                                 *)
(***************************************************************************)
\* the name main() passes (line 60)
MainCollection == "alpaca_financial_news"

\* collections the remote service holds, and names a caller may pass
Existing == {MainCollection, "other_collection"}
Names == Existing \cup {"no_such_collection"}

\* what os.getenv may give for QDRANT_URL / QDRANT_API_KEY
\* ("missing" is None, "empty" is the empty string)
UrlValues == {"missing", "empty", "malformed", "valid"}
KeyValues == {"missing", "empty", "valid"}

\* Python's None, and an optional value holding v
None == <<>>
Some(v) == <<v>>

NoExc == [step |-> "none", cause |-> "none"]

(***************************************************************************)
(* The remote collection configuration.                                    *)
(***************************************************************************)
\* configurations a collection may have before the script runs
InitialConfigs ==
    { [optimizer_config |-> [indexing_threshold |-> 20000,
                             max_optimization_threads |-> 1,
                             memmap_threshold |-> 0],
       hnsw_config |-> [m |-> 16, ef_construct |-> 100,
                        max_indexing_threads |-> 0,
                        full_scan_threshold |-> 10000]],
      [optimizer_config |-> [indexing_threshold |-> 1000,
                             max_optimization_threads |-> 2,
                             memmap_threshold |-> 50000],
       hnsw_config |-> [m |-> 24, ef_construct |-> 200,
                        max_indexing_threads |-> 4,
                        full_scan_threshold |-> 10000]],
      [optimizer_config |-> [indexing_threshold |-> 0,
                             max_optimization_threads |-> 2,
                             memmap_threshold |-> 0],
       hnsw_config |-> [m |-> 32, ef_construct |-> 200,
                        max_indexing_threads |-> 8,
                        full_scan_threshold |-> 500]] }

\* variant: the graph connectivity is computed from the invocation count
UpdateParamsPerRun ==
    << [indexing_threshold |-> 1000, max_optimization_threads |-> 2],
       [max_indexing_threads |-> 4, m |-> 24 + runs, ef_construct |-> 200] >>

\* variant: m is sent with the service's default value
UpdateParamsDefaultM ==
    << [indexing_threshold |-> 1000, max_optimization_threads |-> 2],
       [max_indexing_threads |-> 4, m |-> 16, ef_construct |-> 200] >>

\* the literal keyword arguments of client.update_collection (lines 32-40):
\* <<optimizer_config, hnsw_config>>
UpdateParams ==
    << [indexing_threshold |-> 1000, max_optimization_threads |-> 2],
       [max_indexing_threads |-> 4, m |-> 24, ef_construct |-> 200] >>

\* a *ConfigDiff applied to one parameter group: the fields the diff sets are
\* overwritten, the others are kept
MergeDiff(group, diff) ==
    [f \in DOMAIN group |-> IF f \in DOMAIN diff THEN diff[f] ELSE group[f]]

\* the remote service applying an update-collection request
ApplyUpdate(config, params) ==
    [optimizer_config |-> MergeDiff(config.optimizer_config, params[1]),
     hnsw_config |-> MergeDiff(config.hnsw_config, params[2])]

(***************************************************************************)
(* Pure parts of the script.                                               *)
(***************************************************************************)
\* variant: the credentials are validated before the client is used
ConstructRaisesValidating(url, key) ==
    url \in {"missing", "empty", "malformed"} \/ key \in {"missing", "empty"}

\* QdrantClient(url=..., api_key=...) (lines 24-27): the values of the
\* environment are passed on unchecked; the constructor resolves the endpoint
\* and raises only on a URL it cannot parse.  None and "" are accepted and
\* leave an endpoint no request can reach.
ConstructRaises(url, key) == url = "malformed"

\* how a request through the client handle ends at the remote service: "ok",
\* or the cause of the failure.  A handle built without a usable URL reaches
\* no service, and the service refuses a request without a valid API key.
RequestVerdict(cl, name) ==
    IF cl.url # "valid" THEN "connection_error"
    ELSE IF cl.api_key # "valid" THEN "unauthorized"
    ELSE IF name \notin Existing THEN "not_found"
    ELSE "ok"

\* variant: both counters are taken from the indexed count
ReadInfoIndexedOnly(rem, name) ==
    [indexed_vectors_count |-> rem[name].indexed,
     vectors_count |-> rem[name].indexed]

\* client.get_collection(name) (line 44): the counters of the collection as
\* the service holds them when the request is served
ReadInfo(rem, name) ==
    [indexed_vectors_count |-> rem[name].indexed,
     vectors_count |-> rem[name].total]

\* variant: the two counters are logged under each other's label
ResultLinesSwapped(name, info) ==
    << [level |-> "INFO",
        text |-> <<"Collection Optimization Results for '", name, "':">>],
       [level |-> "INFO",
        text |-> <<"Indexed Vectors Count: ", ToString(info.vectors_count)>>],
       [level |-> "INFO",
        text |-> <<"Total Vectors Count: ", ToString(info.indexed_vectors_count)>>] >>

\* variant: the header line is not logged
ResultLinesNoHeader(name, info) ==
    << [level |-> "INFO",
        text |-> <<"Indexed Vectors Count: ", ToString(info.indexed_vectors_count)>>],
       [level |-> "INFO",
        text |-> <<"Total Vectors Count: ", ToString(info.vectors_count)>>] >>

\* the three logger.info calls of lines 46-48; the f-strings format the
\* counters in decimal
ResultLines(name, info) ==
    << [level |-> "INFO",
        text |-> <<"Collection Optimization Results for '", name, "':">>],
       [level |-> "INFO",
        text |-> <<"Indexed Vectors Count: ", ToString(info.indexed_vectors_count)>>],
       [level |-> "INFO",
        text |-> <<"Total Vectors Count: ", ToString(info.vectors_count)>>] >>

\* logger.error of line 51
ErrorLine(name, e) ==
    [level |-> "ERROR",
     text |-> <<"Error optimizing collection ", name, ": ", e.cause>>]

\* logger.error of line 62
MainErrorLine(e) ==
    [level |-> "ERROR", text |-> <<"Optimization failed: ", e.cause>>]

\* the value optimize_qdrant_collection returns on success: the function has
\* no return statement (lines 12-48)
OptimizeReturn(info) == None

\* variant: a failed update call is ignored and the status read follows
NextPcContinue(step, ok) ==
    IF step = "construct" THEN (IF ok THEN "update" ELSE "except")
    ELSE IF step = "update" THEN "get"
    ELSE IF step = "get" THEN (IF ok THEN "log" ELSE "except")
    ELSE "done"

\* variant: a failed update call is issued again
NextPcRetryUpdate(step, ok) ==
    IF step = "construct" THEN (IF ok THEN "update" ELSE "except")
    ELSE IF step = "update" THEN (IF ok THEN "get" ELSE "update")
    ELSE IF step = "get" THEN (IF ok THEN "log" ELSE "except")
    ELSE "done"

\* variant: a failed status read sends the update again
NextPcReapply(step, ok) ==
    IF step = "construct" THEN (IF ok THEN "update" ELSE "except")
    ELSE IF step = "update" THEN (IF ok THEN "get" ELSE "except")
    ELSE IF step = "get" THEN (IF ok THEN "log" ELSE "update")
    ELSE "done"

\* control flow of the try block (lines 19-52): where a step that ended
\* well (ok) or raised (~ok) continues
NextPc(step, ok) ==
    IF step = "construct" THEN (IF ok THEN "update" ELSE "except")
    ELSE IF step = "update" THEN (IF ok THEN "get" ELSE "except")
    ELSE IF step = "get" THEN (IF ok THEN "log" ELSE "except")
    ELSE "done"

\* variant: main() raises the exception again after logging it
MainOutcomeReraise(e) == "exception"

\* how main() ends after its except clause (lines 61-62): the exception is
\* logged and not raised again

MainOutcome(e) == "normal"

Counters(rem, name) ==
    IF name \in Existing
    THEN Some([indexed_vectors_count |-> rem[name].indexed,
               vectors_count |-> rem[name].total])
    ELSE None

Init ==
    /\ env \in [url : UrlValues, api_key : KeyValues]
    /\ \E c \in InitialConfigs :
          remote = [n \in Existing |-> [config |-> c, indexed |-> 0, total |-> 0]]
    /\ pc = "idle"
    /\ entry = "main"
    /\ collection_name = MainCollection
    /\ client = None
    /\ collection_info = None
    /\ exc = NoExc
    /\ calls = <<>>
    /\ log = <<>>
    /\ outcome = "none"
    /\ retval = None
    /\ mainExit = "none"
    /\ runs = 0
    /\ steps = 0
    /\ applied = <<>>
    /\ atUpdate = None
    /\ atRead = None

(***************************************************************************)
(* The script.                                                             *)
(***************************************************************************)
\* the script is started (lines 65-66, then 59-60), or the function is
\* called by another caller (line 12): a fresh invocation
Start(e, name) ==
    /\ pc \in {"idle", "done"}
    /\ runs < MaxRuns
    /\ e = "main" => name = MainCollection
    /\ runs' = runs + 1
    /\ entry' = e
    /\ collection_name' = name
    /\ pc' = "construct"
    /\ client' = None
    /\ collection_info' = None
    /\ exc' = NoExc
    /\ calls' = <<>>
    /\ log' = <<>>
    /\ outcome' = "none"
    /\ retval' = None
    /\ mainExit' = "none"
    /\ steps' = 0
    /\ atUpdate' = None
    /\ atRead' = None
    /\ UNCHANGED <<env, remote, applied>>

\* load_dotenv() and QdrantClient(...) (lines 21-27)
Construct ==
    /\ pc = "construct"
    /\ steps' = steps + 1
    /\ LET bad == ConstructRaises(env.url, env.api_key) IN
         /\ pc' = NextPc("construct", ~bad)
         /\ client' = IF bad THEN None
                      ELSE Some([url |-> env.url, api_key |-> env.api_key])
         /\ exc' = IF bad THEN [step |-> "construct", cause |-> "invalid_url"]
                   ELSE NoExc
    /\ UNCHANGED <<env, remote, entry, collection_name, collection_info, calls,
                   log, outcome, retval, mainExit, runs, applied, atUpdate, atRead>>

\* client.update_collection(...) (lines 30-41) is served and acknowledged
UpdateOk ==
    /\ pc = "update"
    /\ RequestVerdict(client[1], collection_name) = "ok"
    /\ steps' = steps + 1
    /\ remote' = [remote EXCEPT ![collection_name].config =
                      ApplyUpdate(@, UpdateParams)]
    /\ calls' = Append(calls, [op |-> "update", name |-> collection_name,
                               args |-> UpdateParams, ok |-> TRUE])
    /\ applied' = Append(applied, [name |-> collection_name,
                                   args |-> UpdateParams,
                                   config |-> remote'[collection_name].config])
    /\ atUpdate' = Counters(remote, collection_name)
    /\ pc' = NextPc("update", TRUE)
    /\ UNCHANGED <<env, entry, collection_name, client, collection_info, exc, log,
                   outcome, retval, mainExit, runs, atRead>>

\* client.update_collection(...) raises: the request is refused, or the
\* exchange breaks; a broken exchange may have been served before it broke
UpdateFails ==
    /\ pc = "update"
    /\ steps' = steps + 1
    /\ LET v == RequestVerdict(client[1], collection_name) IN
         \E served \in BOOLEAN :
            /\ served => v = "ok"
            /\ remote' = IF served
                         THEN [remote EXCEPT ![collection_name].config =
                                   ApplyUpdate(@, UpdateParams)]
                         ELSE remote
            /\ applied' = IF served
                          THEN Append(applied,
                                      [name |-> collection_name,
                                       args |-> UpdateParams,
                                       config |-> remote'[collection_name].config])
                          ELSE applied
            /\ exc' = [step |-> "update",
                       cause |-> IF v = "ok" THEN "timeout" ELSE v]
    /\ calls' = Append(calls, [op |-> "update", name |-> collection_name,
                               args |-> UpdateParams, ok |-> FALSE])
    /\ pc' = NextPc("update", FALSE)
    /\ UNCHANGED <<env, entry, collection_name, client, collection_info, log,
                   outcome, retval, mainExit, runs, atUpdate, atRead>>

\* client.get_collection(collection_name) (line 44) is served
GetOk ==
    /\ pc = "get"
    /\ RequestVerdict(client[1], collection_name) = "ok"
    /\ steps' = steps + 1
    /\ collection_info' = Some(ReadInfo(remote, collection_name))
    /\ calls' = Append(calls, [op |-> "get", name |-> collection_name,
                               args |-> <<>>, ok |-> TRUE])
    /\ atRead' = Counters(remote, collection_name)
    /\ pc' = NextPc("get", TRUE)
    /\ UNCHANGED <<env, remote, entry, collection_name, client, exc, log, outcome,
                   retval, mainExit, runs, applied, atUpdate>>

\* client.get_collection(collection_name) raises
GetFails ==
    /\ pc = "get"
    /\ steps' = steps + 1
    /\ LET v == RequestVerdict(client[1], collection_name) IN
         exc' = [step |-> "get", cause |-> IF v = "ok" THEN "timeout" ELSE v]
    /\ calls' = Append(calls, [op |-> "get", name |-> collection_name,
                               args |-> <<>>, ok |-> FALSE])
    /\ pc' = NextPc("get", FALSE)
    /\ UNCHANGED <<env, remote, entry, collection_name, client, collection_info,
                   log, outcome, retval, mainExit, runs, applied, atUpdate, atRead>>

\* the logger.info calls (lines 46-48) and the end of the function
LogResults ==
    /\ pc = "log"
    /\ steps' = steps + 1
    /\ log' = log \o ResultLines(collection_name, collection_info[1])
    /\ outcome' = "returned"
    /\ retval' = OptimizeReturn(collection_info[1])
    /\ pc' = IF entry = "main" THEN "main_return" ELSE "done"
    /\ UNCHANGED <<env, remote, entry, collection_name, client, collection_info,
                   exc, calls, mainExit, runs, applied, atUpdate, atRead>>

\* except Exception as e: logger.error(...); raise (lines 50-52)
InnerExcept ==
    /\ pc = "except"
    /\ steps' = steps + 1
    /\ log' = Append(log, ErrorLine(collection_name, exc))
    /\ outcome' = "raised"
    /\ pc' = IF entry = "main" THEN "main_except" ELSE "done"
    /\ UNCHANGED <<env, remote, entry, collection_name, client, collection_info,
                   exc, calls, retval, mainExit, runs, applied, atUpdate, atRead>>

\* main(): except Exception as e: logger.error(...) (lines 61-62)
MainExcept ==
    /\ pc = "main_except"
    /\ steps' = steps + 1
    /\ log' = Append(log, MainErrorLine(exc))
    /\ mainExit' = MainOutcome(exc)
    /\ exc' = IF MainOutcome(exc) = "normal" THEN NoExc ELSE exc
    /\ pc' = "done"
    /\ UNCHANGED <<env, remote, entry, collection_name, client, collection_info,
                   calls, outcome, retval, runs, applied, atUpdate, atRead>>

\* main(): the call of line 60 returned, main() ends
MainReturn ==
    /\ pc = "main_return"
    /\ steps' = steps + 1
    /\ mainExit' = "normal"
    /\ pc' = "done"
    /\ UNCHANGED <<env, remote, entry, collection_name, client, collection_info,
                   exc, calls, log, outcome, retval, runs, applied, atUpdate, atRead>>

ScriptStep ==
    \/ Construct
    \/ UpdateOk
    \/ UpdateFails
    \/ GetOk
    \/ GetFails
    \/ LogResults
    \/ InnerExcept
    \/ MainExcept
    \/ MainReturn

(***************************************************************************)
(* The surroundings: other writers of the same collections, and the        *)
(* service's own indexing.                                                 *)
(***************************************************************************)
\* another process adds a vector to a collection
ExternalUpsert(n) ==
    /\ remote[n].total < MaxVectors
    /\ remote' = [remote EXCEPT ![n].total = @ + 1]
    /\ UNCHANGED <<env, entry, collection_name, runs, applied, atUpdate, atRead>>
    /\ UNCHANGED scriptVars

\* the service indexes a vector it holds
ServerIndex(n) ==
    /\ remote[n].indexed < remote[n].total
    /\ remote' = [remote EXCEPT ![n].indexed = @ + 1]
    /\ UNCHANGED <<env, entry, collection_name, runs, applied, atUpdate, atRead>>
    /\ UNCHANGED scriptVars

Next ==
    \/ \E e \in {"main", "direct"}, name \in Names : Start(e, name)
    \/ ScriptStep
    \/ \E n \in Existing : ExternalUpsert(n)
    \/ \E n \in Existing : ServerIndex(n)

Spec == Init /\ [][Next]_vars

(***************************************************************************)
(* Vocabulary of the properties.                                           *)
(***************************************************************************)
\* the parameter values the specification states for the update call
ClaimedParams ==
    << [indexing_threshold |-> 1000, max_optimization_threads |-> 2],
       [max_indexing_threads |-> 4, m |-> 24, ef_construct |-> 200] >>

LinesAt(level) == SelectSeq(log, LAMBDA l : l.level = level)

Mentions(line, word) == \E i \in 1..Len(line.text) : line.text[i] = word

\* the error lines optimize_qdrant_collection itself writes
IsInnerError(l) == l.level = "ERROR" /\ l.text[1] = "Error optimizing collection "
InnerErrors == SelectSeq(log, IsInnerError)

CountCalls(op) == Len(SelectSeq(calls, LAMBDA c : c.op = op))

UpdateFailed == Len(calls) >= 1 /\ calls[1].op = "update" /\ ~calls[1].ok

ReadFailedAfterUpdate ==
    /\ Len(calls) >= 2
    /\ calls[1].op = "update" /\ calls[1].ok
    /\ calls[2].op = "get" /\ ~calls[2].ok

\* the exception has reached the except clause of the function and was logged
Handled == pc \in {"main_except", "done"}

Running == pc \notin {"idle", "done"}

(***************************************************************************)
(* C1: an invocation issues one update call for the collection it was      *)
(* given, carrying the literal values indexing_threshold=1000,             *)
(* max_optimization_threads=2, max_indexing_threads=4, m=24,               *)
(* ef_construct=200, and then one status read for the same collection; the *)
(* read is issued only after the update call returned well, and an         *)
(* invocation that returns has issued exactly these two calls.             *)
(***************************************************************************)
C1_UpdateThenRead ==
    /\ Len(calls) <= 2
    /\ Len(calls) >= 1 =>
          /\ calls[1].op = "update"
          /\ calls[1].name = collection_name
          /\ calls[1].args = ClaimedParams
    /\ Len(calls) = 2 =>
          /\ calls[1].ok
          /\ calls[2].op = "get"
          /\ calls[2].name = collection_name
    /\ (Len(calls) >= 1 /\ calls[1].ok /\ pc \notin {"update", "get"}) =>
          Len(calls) = 2
    /\ outcome = "returned" => (Len(calls) = 2 /\ calls[2].ok)

C1_Witness ==
    /\ outcome = "returned"
    /\ entry = "direct"
    /\ collection_name = "other_collection"
    /\ CountCalls("update") = 1
    /\ CountCalls("get") = 1

(***************************************************************************)
(* C2: when the update call fails, the invocation issues no status read,   *)
(* and once the except clause has run the log holds an error-level line    *)
(* that contains the collection name.                                      *)
(***************************************************************************)
C2_UpdateFailureStops ==
    UpdateFailed =>
        /\ CountCalls("get") = 0
        /\ pc \in {"except", "main_except", "done"}
        /\ Handled =>
              \E i \in 1..Len(log) :
                  log[i].level = "ERROR" /\ Mentions(log[i], collection_name)

C2_Witness ==
    /\ UpdateFailed
    /\ pc = "done"
    /\ Len(calls) = 1
    /\ Len(InnerErrors) = 1

(***************************************************************************)
(* C3: when the status read fails after an update that succeeded, the      *)
(* failure is logged with the collection name, the failed read is the last *)
(* remote call of the invocation, and the collection keeps the             *)
(* configuration the update wrote.                                         *)
(***************************************************************************)
C3_NoRollback ==
    ReadFailedAfterUpdate =>
        /\ Len(calls) = 2
        /\ pc \in {"except", "main_except", "done"}
        /\ Handled =>
              \E i \in 1..Len(log) :
                  log[i].level = "ERROR" /\ Mentions(log[i], collection_name)
        /\ remote[collection_name].config = applied[Len(applied)].config
        /\ remote[collection_name].config =
              ApplyUpdate(remote[collection_name].config, ClaimedParams)

C3_Witness ==
    /\ ReadFailedAfterUpdate
    /\ pc = "done"
    /\ remote[collection_name].config \notin InitialConfigs

(***************************************************************************)
(* C4, as stated: on success the function returns the snapshot the status  *)
(* read obtained.                                                          *)
(***************************************************************************)
C4_ReturnsSnapshot ==
    outcome = "returned" => retval = collection_info

(***************************************************************************)
(* C4, amended: on success the function returns None; the snapshot the     *)
(* status read obtained is reported in the log alone, the indexed count in *)
(* the line "Indexed Vectors Count: " and the total count in the line      *)
(* "Total Vectors Count: ".                                                *)
(***************************************************************************)
C4_LogsSnapshot ==
    outcome = "returned" =>
        /\ retval = None
        /\ atRead # None
        /\ \E i \in 1..Len(log) :
              log[i].text = <<"Indexed Vectors Count: ",
                              ToString(atRead[1].indexed_vectors_count)>>
        /\ \E i \in 1..Len(log) :
              log[i].text = <<"Total Vectors Count: ",
                              ToString(atRead[1].vectors_count)>>

C4_Witness ==
    /\ outcome = "returned"
    /\ atRead = Some([indexed_vectors_count |-> 1, vectors_count |-> 2])

(***************************************************************************)
(* C5: a failure of any step of the function (client construction, update  *)
(* call, status read) reaches its except clause, is logged once with the   *)
(* collection name and the cause, and is raised again to the caller;       *)
(* main() logs it a second time and suppresses it, so main() always ends   *)
(* normally.                                                               *)
(***************************************************************************)
C5_LogReraiseSwallow ==
    /\ exc # NoExc => pc \in {"except", "main_except", "done"}
    /\ (exc # NoExc /\ pc = "done") => (entry = "direct" /\ outcome = "raised")
    /\ pc = "main_except" => (exc # NoExc /\ outcome = "raised")
    /\ outcome = "raised" =>
          /\ Len(InnerErrors) = 1
          /\ Mentions(InnerErrors[1], collection_name)
          /\ exc # NoExc => Mentions(InnerErrors[1], exc.cause)
    /\ (entry = "main" /\ pc = "done" /\ outcome = "raised") =>
          /\ Len(LinesAt("ERROR")) = 2
          /\ LinesAt("ERROR")[2].text[1] = "Optimization failed: "
          /\ LinesAt("ERROR")[2].text[2] = LinesAt("ERROR")[1].text[4]
          /\ exc = NoExc
    /\ mainExit # "exception"
    /\ (entry = "main" /\ pc = "done") => mainExit = "normal"

C5_Witness ==
    /\ entry = "main"
    /\ pc = "done"
    /\ outcome = "raised"
    /\ mainExit = "normal"
    /\ Len(calls) = 0
    /\ Len(LinesAt("ERROR")) = 2

(***************************************************************************)
(* C6, as stated: a successful invocation emits two log lines.             *)
(***************************************************************************)
C6_TwoLinesOnSuccess ==
    outcome = "returned" => Len(log) = 2

(***************************************************************************)
(* C6, amended: a successful invocation emits three info-level log lines   *)
(* (the status header, the indexed count, the total count) and no          *)
(* error-level line; a failed invocation emits exactly one error-level     *)
(* line from the function itself, and no info-level line.                  *)
(***************************************************************************)
C6_LogLines ==
    /\ outcome = "returned" =>
          /\ Len(log) = 3
          /\ Len(LinesAt("INFO")) = 3
          /\ Len(LinesAt("ERROR")) = 0
          /\ log[1].text = <<"Collection Optimization Results for '",
                             collection_name, "':">>
          /\ log[2].text[1] = "Indexed Vectors Count: "
          /\ log[3].text[1] = "Total Vectors Count: "
    /\ outcome = "raised" =>
          /\ Len(InnerErrors) = 1
          /\ Len(LinesAt("INFO")) = 0
    /\ outcome = "none" => Len(log) = 0

C6_Witness ==
    /\ outcome = "returned"
    /\ entry = "main"
    /\ pc = "done"
    /\ Len(LinesAt("INFO")) = 3

(***************************************************************************)
(* C7: with QDRANT_URL or QDRANT_API_KEY missing or empty (and no          *)
(* unparsable URL), nothing rejects the values before the client is used:  *)
(* the client is built from them as they are, the update call is issued    *)
(* and is the step that fails, the failure is logged with the collection   *)
(* name, and main() ends normally.                                         *)
(***************************************************************************)
CredentialsMissing ==
    /\ env.url # "malformed"
    /\ env.url \in {"missing", "empty"} \/ env.api_key \in {"missing", "empty"}

C8_IdempotentOutcome ==
    \A i, j \in 1..Len(applied) :
        /\ applied[i].args = applied[j].args
        /\ applied[i].name = applied[j].name =>
              applied[i].config = applied[j].config

C8_Witness ==
    /\ Len(applied) = 2
    /\ applied[1].name = applied[2].name
    /\ applied[1].config \notin InitialConfigs
    /\ outcome = "returned"
    /\ pc = "done"

(***************************************************************************)
(* C9: no step is retried: an invocation issues at most one update call    *)
(* and at most one status read, takes at most five steps whichever step    *)
(* fails and whatever the cause, and a step is possible until it has       *)
(* ended.                                                                  *)
(***************************************************************************)
C9_NoRetry ==
    /\ CountCalls("update") <= 1
    /\ CountCalls("get") <= 1
    /\ Len(calls) <= 2
    /\ steps <= 5
    /\ Running => ENABLED ScriptStep

C9_Witness ==
    /\ entry = "main"
    /\ pc = "done"
    /\ ReadFailedAfterUpdate
    /\ calls[2].ok = FALSE
    /\ steps = 5

(***************************************************************************)
(* C10: the counts an invocation reports are those the collection had when *)
(* the status read was served, also when they changed after the update     *)
(* call returned; the read is possible whatever happened in between.       *)
(***************************************************************************)
C10_SnapshotAtRead ==
    /\ collection_info # None => collection_info = atRead
    /\ outcome = "returned" =>
          log[2].text[2] = ToString(atRead[1].indexed_vectors_count)
          /\ log[3].text[2] = ToString(atRead[1].vectors_count)
    /\ (pc = "get" /\ atUpdate # None) => ENABLED GetOk

C10_Witness ==
    /\ outcome = "returned"
    /\ atUpdate # atRead
    /\ atRead # None
    /\ atRead[1].vectors_count > atUpdate[1].vectors_count

====
